---- MODULE Spec2Model ----
(***************************************************************************)
(* Model of anilist.py: the poster renderer create_custom_poster, the      *)
(* callback handler create_poster_handler that calls it, and the branding  *)
(* command set_channel_name that changes the channel name the renderer     *)
(* reads from the module-level variable CHANNEL_NAME.                      *)
(*                                                                         *)
(* A text is a sequence of tokens (strings); a title is a sequence of      *)
(* words.  A JSON field of the media record is a value, the JSON null, or  *)
(* missing from the record.                                                *)
(***************************************************************************)
EXTENDS Integers, Sequences, FiniteSets, TLC

\* ------------------------------------------------------------------ bounds
\* Longest title, in words, of the records given to the wrap loop.
MaxWords == 4
\* Longest genre list of the records given to the chip loop.
MaxGenres == 5
\* Largest width and height, in pixels, of the backdrops given to the scaling.
MaxSide == 40
\* Number of session callbacks (page, result, close buttons) delivered.
MaxCallbacks == 3
\* The search has LastPage pages of results; the last one holds LastPageLen.
LastPage == 3
LastPageLen == 2
\* Number of /cname commands the bot receives in one run.
MaxCmds == 2

\* ------------------------------------------------------- program constants
POSTER_WIDTH == 1280
POSTER_HEIGHT == 720
\* Variant: the canvas split in two halves.
HalfSplit == POSTER_WIDTH \div 2
\* int(POSTER_WIDTH * 0.60)
BLUR_AREA_WIDTH == (POSTER_WIDTH * 60) \div 100
IMAGE_AREA_WIDTH == POSTER_WIDTH - BLUR_AREA_WIDTH
THUMBNAIL_SIZE == 80
BOTTOM_SECTION_HEIGHT == 150
\* title_x, the left margin of the text block
title_x == 50
\* max_title_width = BLUR_AREA_WIDTH - 100
max_title_width == BLUR_AREA_WIDTH - 100
\* the cap of the wrap loop: len(title_lines) < 3 / >= 3
MaxTitleLines == 3
\* gap between the thumbnail and the name, and between caption and name
BrandGap == 20
GENRE_PADDING == 10
GENRE_SPACING == 10
\* title_y = 60
TitleTop == 60
\* genres[:4]
MaxChips == 4

\* --------------------------------------------------------- record values
ABSENT == "<absent>"
NULL == "<null>"

\* A title field: missing, null, or a string (its words; <<>> is "").
NoKey == [k |-> "absent", v |-> <<>>]
Null == [k |-> "null", v |-> <<>>]
Str(ws) == [k |-> "str", v |-> ws]
\* A list field, likewise.
List(xs) == [k |-> "list", v |-> xs]

\* dict.get(key): the value, or None when the key is missing.
Get(f) == IF f.k = "absent" THEN Null ELSE f
\* Python truthiness of a title value: None and "" are falsy.
Truthy(f) == f.k = "str" /\ f.v # <<>>

\* dict.get(key, default) of a scalar field.
GetD(x, default) == IF x = ABSENT THEN default ELSE x
\* str() of a scalar inside an f-string: None prints as "None".
Format(x) == IF x = NULL THEN "None" ELSE x

\* str.capitalize() on the season names of the API.
Capitalize(s) ==
  CASE s = "WINTER" -> "Winter"
    [] s = "SPRING" -> "Spring"
    [] s = "SUMMER" -> "Summer"
    [] s = "FALL" -> "Fall"
    [] OTHER -> s

\* str.replace("_", " ").title() on the format names of the API.
TitleCase(s) ==
  CASE s = "TV" -> "Tv"
    [] s = "TV_SHORT" -> "Tv Short"
    [] s = "MOVIE" -> "Movie"
    [] s = "N/A" -> "N/A"
    [] OTHER -> s

\* ------------------------------------------------------------ font metrics
\* Measured width of one word in title_font (48 pt).
WordWidth(w) ==
  CASE w = "on" -> 100
    [] w = "Titan" -> 300
    [] w = "Shingeki" -> 400
    [] w = "Pneumonoultramicroscopic" -> 700
    [] w = "No" -> 90
    [] w = "Title" -> 200
    [] w = "/" -> 30
    [] OTHER -> 150
\* Measured width of a space in title_font.
SpaceWidth == 20

RECURSIVE SumWidths(_)
SumWidths(line) ==
  IF line = <<>> THEN 0 ELSE WordWidth(Head(line)) + SumWidths(Tail(line))

\* get_text_dimensions(line, title_font)[0]: words joined by single spaces.
TextWidth(line) ==
  IF line = <<>> THEN 0 ELSE SumWidths(line) + SpaceWidth * (Len(line) - 1)

\* get_text_dimensions(CHANNEL_NAME, channel_font): (width, height).
NameWidth(name) ==
  CASE name = "A-Hub" -> 130
    [] name = "AnimeHub" -> 215
    [] name = "The Longest Anime Channel Name Of Them All On Telegram" -> 1100
    [] OTHER -> 170
NameHeight == 36
\* get_text_dimensions(line, title_font)[1], (detail, detail_font)[1] and
\* the height of the star in rating_font.
TitleLineHeight == 40
DetailHeight == 24
StarHeight == 50
\* draw.textbbox((0, 0), genre, font=genre_font): width and height.
GenreWidth(g) ==
  CASE g = "Action" -> 75
    [] g = "Psychological" -> 175
    [] g = "Slice of Life" -> 140
    [] g = "......" -> 60
    [] OTHER -> 100
GenreHeight(g) ==
  CASE g = "Action" -> 17
    [] g = "Psychological" -> 22
    [] g = "Slice of Life" -> 18
    [] g = "......" -> 4
    [] OTHER -> 17
\* get_text_dimensions(join_text, join_font)[1]
JoinHeight == 28
JoinWidth == 380


\* ------------------------------------------------------------------ state
VARIABLES
  anime_data,     \* the media record handed to create_custom_poster
  thumbnail_img,  \* TRUE iff a thumbnail image was handed to it
  CHANNEL_NAME,   \* the module-level branding variable
  store,          \* bot_settings: channel_name of the branding document
  cmds,           \* number of /cname messages handled so far
  rpc,            \* position of the render inside create_custom_poster
  title,          \* local title, as its words (title.split())
  i,              \* index of the word the wrap loop is at
  current_line,   \* local current_line, as its words (<<>> is "")
  title_lines,    \* local title_lines
  fields,         \* locals season, year, episodes, media_type, rating
  measured,       \* the name last measured and the width measured for it
  canvas,         \* what has been drawn on the poster so far
  name_reads,     \* the values read from CHANNEL_NAME by this render
  log,            \* messages printed
  bio,            \* the buffer create_custom_poster returned, or "none"
  raised,         \* the stage an exception was raised in, or "none"
  cause,          \* "env": a library call failed; "data": the record
  thumb_fault,    \* the thumbnail step that failed, or "none"
  hpc,            \* position of create_poster_handler
  replies,        \* what the handler sent to the chat
  running,        \* the task running on the event loop: "none", "poster"
  banner,         \* size of the image the backdrop is made from
  refreshed,      \* the name update_branding last read from the store
  target,         \* locals target_width, target_height
  genre_i,        \* index of the genre the chip loop is at
  genre_x,        \* local genre_x
  genres_y,       \* local genres_y
  session,        \* the user_sessions document, or NoSession
  tasks           \* the session callbacks in flight and where each is

inputs == <<anime_data, thumbnail_img, banner>>
brandv == <<CHANNEL_NAME, store, cmds, refreshed>>
layoutv == <<target, genre_i, genre_x, genres_y>>
sessv == <<session, tasks>>
wrapv == <<title, i, current_line, title_lines>>
errv == <<raised, cause, thumb_fault>>
handv == <<hpc, replies, running>>
postv == <<inputs, brandv, rpc, wrapv, fields, measured, canvas, name_reads,
          log, bio, errv, handv, layoutv>>
vars == <<inputs, brandv, rpc, wrapv, fields, measured, canvas, name_reads,
          log, bio, errv, handv, layoutv, sessv>>

Names == {"A-Hub", "AnimeHub",
          "The Longest Anime Channel Name Of Them All On Telegram"}

EmptyCanvas ==
  [size |-> <<>>, cover |-> <<>>, blur |-> <<>>,
   title_lines |-> <<>>, details |-> <<>>, rating |-> <<>>, chips |-> <<>>,
   join |-> <<>>, thumb |-> <<>>, names |-> <<>>]
NoTarget == [w |-> 0, h |-> 0, left |-> 0, top |-> 0, right |-> 0,
             bottom |-> 0]
NoFields ==
  [season |-> "", year |-> "", episodes |-> "", media_type |-> "",
   rating |-> ""]
NoMeasure == [name |-> "", w |-> 0]

\* The locals of a render call that has not started.
FreshLocals ==
  /\ title = <<>> /\ i = 1 /\ current_line = <<>> /\ title_lines = <<>>
  /\ fields = NoFields /\ measured = NoMeasure /\ canvas = EmptyCanvas
  /\ name_reads = <<>> /\ log = <<>> /\ bio = "none"
  /\ raised = "none" /\ cause = "none" /\ thumb_fault = "none"
  /\ target = NoTarget /\ genre_i = 1 /\ genre_x = 0 /\ genres_y = 0

\* ----------------------------------------------- create_custom_poster
\* The render runs on the event loop thread, inside the poster handler.
InRender(stage) == running = "poster" /\ hpc = "render" /\ rpc = stage

\* The stages outside the thumbnail sub-step in which a library call
\* (download, decode, resize, paste, draw, save) can raise.
FaultStages ==
  {"fetch", "background", "draw_title", "details", "rating", "genres",
   "chip", "caption", "encode"}

\* An exception in one of these stages reaches the outer except clause.
OuterFault ==
  /\ running = "poster" /\ hpc = "render" /\ rpc \in FaultStages
  /\ raised' = rpc /\ cause' = "env" /\ rpc' = "except"
  /\ UNCHANGED <<sessv, layoutv, inputs, brandv, wrapv, fields, measured, canvas,
                 name_reads, log, bio, thumb_fault, handv>>

\* Variant: the except clause without its raise, falling off the function.
ExceptSwallow == "returned"
\* What the outer except clause ends with: raise.
ExceptOutcome == "raised"

\* except Exception as e: print, print_exc, raise.
OuterExcept ==
  /\ InRender("except")
  /\ log' = Append(log, "Error in create_custom_poster")
  /\ rpc' = ExceptOutcome
  /\ UNCHANGED <<sessv, layoutv, inputs, brandv, wrapv, fields, measured, canvas,
                 name_reads, bio, errv, handv>>

\* cover and banner download.
Fetch ==
  /\ InRender("fetch")
  /\ rpc' = "background"
  /\ UNCHANGED <<sessv, layoutv, inputs, brandv, wrapv, fields, measured, canvas,
                 name_reads, log, bio, errv, handv>>

\* target_width = int(target_height * banner_aspect), with banner_aspect
\* the double width / height.  The product can fall just below a whole
\* quotient (720 * (7 / 5) is 1007.99...) and int() then gives one less; for
\* width / height = 16 / 15 it is 768.0 exactly.
TargetWidths(w, h) ==
  LET q == (POSTER_HEIGHT * w) \div h
  IN IF (POSTER_HEIGHT * w) % h = 0 /\ 15 * w # 16 * h
     THEN {q - 1, q} ELSE {q}

\* target_height = int(target_width / banner_aspect), likewise.
TargetHeights(w, h) ==
  LET q == (BLUR_AREA_WIDTH * h) \div w
  IN IF (BLUR_AREA_WIDTH * h) % w = 0 THEN {q - 1, q} ELSE {q}

\* Variant: the backdrop is never refitted to the panel's width.
NeverRefit(target_width) == FALSE
\* if target_width < BLUR_AREA_WIDTH:
NeedsRefit(target_width) == target_width < BLUR_AREA_WIDTH

\* left, top, right, bottom of the center crop.
CropBox(tw, th) ==
  [w |-> tw, h |-> th,
   left |-> (tw - BLUR_AREA_WIDTH) \div 2,
   top |-> (th - POSTER_HEIGHT) \div 2,
   right |-> (tw - BLUR_AREA_WIDTH) \div 2 + BLUR_AREA_WIDTH,
   bottom |-> (th - POSTER_HEIGHT) \div 2 + POSTER_HEIGHT]

\* The canvas, the cover stretched over the right panel, the backdrop
\* scaled, center-cropped, blurred, darkened and pasted at the origin.
Background ==
  /\ InRender("background")
  /\ \E tw0 \in TargetWidths(banner.w, banner.h) :
       IF NeedsRefit(tw0)
       THEN \E th \in TargetHeights(banner.w, banner.h) :
              target' = CropBox(BLUR_AREA_WIDTH, th)
       ELSE target' = CropBox(tw0, POSTER_HEIGHT)
  /\ canvas' = [canvas EXCEPT
       !.size = <<POSTER_WIDTH, POSTER_HEIGHT>>,
       !.cover = <<[x |-> BLUR_AREA_WIDTH, y |-> 0,
                    w |-> IMAGE_AREA_WIDTH, h |-> POSTER_HEIGHT]>>,
       !.blur = <<[x |-> 0, y |-> 0,
                   w |-> target'.right - target'.left,
                   h |-> target'.bottom - target'.top]>>]
  /\ rpc' = "extract"
  /\ UNCHANGED <<sessv, genre_i, genre_x, genres_y, inputs, brandv, wrapv,
                 fields, measured, name_reads, log, bio, errv, handv>>

\* Variant: the placeholder of the photo caption, "Unknown Title".
CaptionTitle(t) ==
  IF Truthy(Get(t.english)) THEN Get(t.english).v
  ELSE IF Truthy(Get(t.romaji)) THEN Get(t.romaji).v
  ELSE <<"Unknown", "Title">>
\* Variant: the rule of show_result's caption, "English / Romanized".
ConcatTitle(t) ==
  IF Truthy(Get(t.english)) /\ Truthy(Get(t.romaji))
     /\ Get(t.english) # Get(t.romaji)
  THEN Get(t.english).v \o <<"/">> \o Get(t.romaji).v
  ELSE IF Truthy(Get(t.english)) THEN Get(t.english).v
  ELSE IF Truthy(Get(t.romaji)) THEN Get(t.romaji).v
  ELSE <<"No", "Title">>
\* title = english or romaji or "No Title"
ResolveTitle(t) ==
  IF Truthy(Get(t.english)) THEN Get(t.english).v
  ELSE IF Truthy(Get(t.romaji)) THEN Get(t.romaji).v
  ELSE <<"No", "Title">>

\* .capitalize() and .replace() are called on the value .get() returned:
\* on None they raise AttributeError.
ExtractRaises(d) ==
  \/ GetD(d.season, "") = NULL
  \/ GetD(d.format, "N/A") = NULL

\* season, year, episodes, media_type, rating.
ExtractFields(d) ==
  [season |-> IF Capitalize(GetD(d.season, "")) # ""
              THEN Capitalize(GetD(d.season, "")) ELSE "Unknown",
   year |-> GetD(d.seasonYear, "N/A"),
   episodes |-> GetD(d.episodes, "N/A"),
   media_type |-> TitleCase(GetD(d.format, "N/A")),
   rating |-> GetD(d.averageScore, "N/A")]

Extract ==
  /\ InRender("extract")
  /\ title' = ResolveTitle(anime_data.title)
  /\ IF ExtractRaises(anime_data)
     THEN /\ raised' = "extract" /\ cause' = "data" /\ rpc' = "except"
          /\ UNCHANGED <<fields, thumb_fault>>
     ELSE /\ fields' = ExtractFields(anime_data)
          /\ rpc' = "wrap"
          /\ UNCHANGED errv
  /\ UNCHANGED <<sessv, layoutv, inputs, brandv, i, current_line, title_lines, measured,
                 canvas, name_reads, log, bio, handv>>

\* Variant: the word put in front of the line.
TestLineReversed(cur, word) == <<word>> \o cur
\* test_line = f"{current_line} {word}".strip() if current_line else word
TestLine(cur, word) == IF cur # <<>> THEN cur \o <<word>> ELSE <<word>>

\* test_width <= max_title_width and len(title_lines) < 3
Fits(test_line, lines) ==
  TextWidth(test_line) <= max_title_width /\ Len(lines) < MaxTitleLines

\* if current_line: title_lines.append(current_line)
Commit(cur, lines) == IF cur # <<>> THEN Append(lines, cur) ELSE lines

\* One iteration of: for word in words.
WrapWord ==
  /\ InRender("wrap") /\ i <= Len(title)
  /\ LET word == title[i]
         test_line == TestLine(current_line, word)
     IN IF Fits(test_line, title_lines)
        THEN /\ current_line' = test_line
             /\ i' = i + 1
             /\ UNCHANGED <<title_lines, rpc>>
        ELSE /\ title_lines' = Commit(current_line, title_lines)
             /\ current_line' = <<word>>
             /\ IF Len(title_lines') >= MaxTitleLines
                THEN rpc' = "wrap_end" /\ i' = i
                ELSE rpc' = rpc /\ i' = i + 1
  /\ UNCHANGED <<sessv, layoutv, inputs, brandv, title, fields, measured, canvas,
                 name_reads, log, bio, errv, handv>>

\* The loop runs out of words.
WrapExit ==
  /\ InRender("wrap") /\ i > Len(title)
  /\ rpc' = "wrap_end"
  /\ UNCHANGED <<sessv, layoutv, inputs, brandv, wrapv, fields, measured, canvas,
                 name_reads, log, bio, errv, handv>>

\* Variant: the final append without the test of the number of lines.
FinalCommitNoCap(cur, lines) == IF cur # <<>> THEN Append(lines, cur) ELSE lines
\* if current_line and len(title_lines) < 3: title_lines.append(...)
FinalCommit(cur, lines) ==
  IF cur # <<>> /\ Len(lines) < MaxTitleLines THEN Append(lines, cur)
  ELSE lines

WrapEnd ==
  /\ InRender("wrap_end")
  /\ title_lines' = FinalCommit(current_line, title_lines)
  /\ rpc' = "draw_title"
  /\ UNCHANGED <<sessv, layoutv, inputs, brandv, title, i, current_line, fields, measured,
                 canvas, name_reads, log, bio, errv, handv>>

\* for line in title_lines: draw.text(...)
DrawTitle ==
  /\ InRender("draw_title")
  /\ canvas' = [canvas EXCEPT !.title_lines = title_lines]
  /\ rpc' = "details"
  /\ UNCHANGED <<sessv, layoutv, inputs, brandv, wrapv, fields, measured, name_reads, log,
                 bio, errv, handv>>


\* details = [f"Season: {season} {year}", f"Episodes: {episodes}",
\*            f"Type: {media_type}"]
DetailLines(f) ==
  << <<"Season: ", f.season, " ", Format(f.year)>>,
     <<"Episodes: ", Format(f.episodes)>>,
     <<"Type: ", f.media_type>> >>

\* for detail in details: draw.text(...)
Details ==
  /\ InRender("details")
  /\ canvas' = [canvas EXCEPT !.details = DetailLines(fields)]
  /\ rpc' = "rating"
  /\ UNCHANGED <<sessv, layoutv, inputs, brandv, wrapv, fields, measured, name_reads, log,
                 bio, errv, handv>>

\* rating_text = f"{rating}%"
RatingText(rating) == <<Format(rating), "%">>

\* the star and rating_text beside it.
Rating ==
  /\ InRender("rating")
  /\ canvas' = [canvas EXCEPT !.rating = RatingText(fields.rating)]
  /\ rpc' = "genres"
  /\ UNCHANGED <<sessv, layoutv, inputs, brandv, wrapv, fields, measured, name_reads, log,
                 bio, errv, handv>>

\* genres = anime_data.get("genres", []): the list, [] when the key is
\* missing.
ListOf(f) == IF f.k = "absent" THEN <<>> ELSE f.v

\* Variant: every genre of the record gets a chip.
ShownAll(genres) == genres
\* genres[:4]
Shown(genres) ==
  SubSeq(genres, 1, IF Len(genres) < MaxChips THEN Len(genres) ELSE MaxChips)

\* title_y after the title lines, details_y after the three detail lines,
\* rating_y = details_y + 30, genres_y = rating_y + star_height + 50.
GenresTop(lines) ==
  TitleTop + Len(lines) * (TitleLineHeight + 10)
  + 30 + 3 * (DetailHeight + 30)
  + 30 + StarHeight + 50

\* genres_y, genre_x = title_x; slicing None raises TypeError.
Genres ==
  /\ InRender("genres")
  /\ IF anime_data.genres.k = "null"
     THEN /\ raised' = "genres" /\ cause' = "data" /\ rpc' = "except"
          /\ UNCHANGED <<layoutv, thumb_fault>>
     ELSE /\ genres_y' = GenresTop(title_lines)
          /\ genre_x' = title_x
          /\ genre_i' = 1
          /\ rpc' = "chip"
          /\ UNCHANGED <<target, errv>>
  /\ UNCHANGED <<sessv, inputs, brandv, wrapv, fields, measured, canvas,
                 name_reads, log, bio, handv>>

\* Variant: the chip is tested against the right edge of the poster.
OverflowsPoster(x, box_width) == x + box_width > POSTER_WIDTH - 50
\* if genre_x + box_width > BLUR_AREA_WIDTH - 50:
Overflows(x, box_width) == x + box_width > BLUR_AREA_WIDTH - 50

\* genres_y += box_height + GENRE_SPACING, box_height being the height of
\* the chip about to be drawn.
RowAdvance(box_height) == box_height + GENRE_SPACING

\* One iteration of: for genre in genres[:4].
GenreChip ==
  /\ InRender("chip") /\ genre_i <= Len(Shown(ListOf(anime_data.genres)))
  /\ LET genre == Shown(ListOf(anime_data.genres))[genre_i]
         box_width == GenreWidth(genre) + 2 * GENRE_PADDING
         box_height == GenreHeight(genre) + 2 * GENRE_PADDING
         wraps == Overflows(genre_x, box_width)
         x == IF wraps THEN title_x ELSE genre_x
         y == IF wraps THEN genres_y + RowAdvance(box_height) ELSE genres_y
     IN /\ canvas' = [canvas EXCEPT !.chips = Append(@,
             [genre |-> genre, x |-> x, y |-> y,
              w |-> box_width, h |-> box_height])]
        /\ genre_x' = x + box_width + GENRE_SPACING
        /\ genres_y' = y
  /\ genre_i' = genre_i + 1
  /\ UNCHANGED <<sessv, target, inputs, brandv, rpc, wrapv, fields, measured,
                 name_reads, log, bio, errv, handv>>

\* The loop runs out of genres.
GenresDone ==
  /\ InRender("chip") /\ genre_i > Len(Shown(ListOf(anime_data.genres)))
  /\ rpc' = "caption"
  /\ UNCHANGED <<sessv, layoutv, inputs, brandv, wrapv, fields, measured,
                 canvas, name_reads, log, bio, errv, handv>>

\* join_y = POSTER_HEIGHT - BOTTOM_SECTION_HEIGHT + 20
join_y == POSTER_HEIGHT - BOTTOM_SECTION_HEIGHT + 20

\* Variant: centered on the whole poster instead of the left panel.
CenterXOffPanel(width) == (POSTER_WIDTH - width) \div 2
\* (BLUR_AREA_WIDTH - width) // 2
CenterX(width) == (BLUR_AREA_WIDTH - width) \div 2

\* "Join Our Telegram Channel", centered in the left panel.
Caption ==
  /\ InRender("caption")
  /\ canvas' = [canvas EXCEPT
                  !.join = <<[x |-> CenterX(JoinWidth), y |-> join_y]>>]
  /\ rpc' = "branding"
  /\ UNCHANGED <<sessv, layoutv, inputs, brandv, wrapv, fields, measured, name_reads, log,
                 bio, errv, handv>>

\* if thumbnail_img:
Branding ==
  /\ InRender("branding")
  /\ rpc' = IF thumbnail_img THEN "thumb_resize" ELSE "name_measure"
  /\ UNCHANGED <<sessv, layoutv, inputs, brandv, wrapv, fields, measured, canvas,
                 name_reads, log, bio, errv, handv>>

\* Variant: the global copied to a local at its first use.
ReadNameCached(reads, name) ==
  IF reads = <<>> THEN Append(reads, name) ELSE reads
\* One evaluation of the global CHANNEL_NAME.
ReadName(reads, name) == Append(reads, name)

\* The steps of the try block of the thumbnail sub-step.
ThumbSteps ==
  {"thumb_resize", "thumb_mask", "thumb_measure", "thumb_paste",
   "thumb_draw"}
\* The steps whose failing call has CHANNEL_NAME as an argument.
ThumbStepsReadingName == {"thumb_measure", "thumb_draw"}

\* A call of the try block raises: control goes to its except clause.
ThumbFault ==
  /\ running = "poster" /\ hpc = "render" /\ rpc \in ThumbSteps
  /\ thumb_fault' = rpc
  /\ name_reads' = IF rpc \in ThumbStepsReadingName
                   THEN ReadName(name_reads, CHANNEL_NAME) ELSE name_reads
  /\ rpc' = "fb_measure"
  /\ UNCHANGED <<sessv, layoutv, inputs, brandv, wrapv, fields, measured, canvas, log, bio,
                 raised, cause, handv>>

\* thumbnail_img.resize(THUMBNAIL_SIZE)
ThumbResize ==
  /\ InRender("thumb_resize")
  /\ rpc' = "thumb_mask"
  /\ UNCHANGED <<sessv, layoutv, inputs, brandv, wrapv, fields, measured, canvas,
                 name_reads, log, bio, errv, handv>>

\* the circular mask
ThumbMask ==
  /\ InRender("thumb_mask")
  /\ rpc' = "thumb_measure"
  /\ UNCHANGED <<sessv, layoutv, inputs, brandv, wrapv, fields, measured, canvas,
                 name_reads, log, bio, errv, handv>>

\* channel_width, channel_height = get_text_dimensions(CHANNEL_NAME, ...)
ThumbMeasure ==
  /\ InRender("thumb_measure")
  /\ name_reads' = ReadName(name_reads, CHANNEL_NAME)
  /\ measured' = [name |-> CHANNEL_NAME, w |-> NameWidth(CHANNEL_NAME)]
  /\ rpc' = "thumb_paste"
  /\ UNCHANGED <<sessv, layoutv, inputs, brandv, wrapv, fields, canvas, log, bio, errv,
                 handv>>

\* group_x = (BLUR_AREA_WIDTH - (THUMBNAIL_SIZE[0] + 20 + channel_width)) // 2
group_x(channel_width) == CenterX(THUMBNAIL_SIZE + BrandGap + channel_width)
\* group_y = join_y + join_height + 20
group_y == join_y + JoinHeight + BrandGap

\* poster.paste(thumbnail_img, (group_x, group_y), mask)
ThumbPaste ==
  /\ InRender("thumb_paste")
  /\ canvas' = [canvas EXCEPT
                  !.thumb = <<[x |-> group_x(measured.w), y |-> group_y]>>]
  /\ rpc' = "thumb_draw"
  /\ UNCHANGED <<sessv, layoutv, inputs, brandv, wrapv, fields, measured, name_reads, log,
                 bio, errv, handv>>

\* draw.text((channel_x, channel_y), CHANNEL_NAME, ...)
ThumbDraw ==
  /\ InRender("thumb_draw")
  /\ name_reads' = ReadName(name_reads, CHANNEL_NAME)
  /\ canvas' = [canvas EXCEPT !.names = Append(@,
       [text |-> CHANNEL_NAME, measured |-> measured.name,
        x |-> group_x(measured.w) + THUMBNAIL_SIZE + BrandGap,
        y |-> group_y + (THUMBNAIL_SIZE - NameHeight) \div 2])]
  /\ rpc' = "encode"
  /\ UNCHANGED <<sessv, layoutv, inputs, brandv, wrapv, fields, measured, log, bio, errv,
                 handv>>

\* except Exception as e: print(...); text_width, text_height = ...
FallbackMeasure ==
  /\ InRender("fb_measure")
  /\ log' = Append(log, "Error processing thumbnail")
  /\ name_reads' = ReadName(name_reads, CHANNEL_NAME)
  /\ measured' = [name |-> CHANNEL_NAME, w |-> NameWidth(CHANNEL_NAME)]
  /\ rpc' = "fb_draw"
  /\ UNCHANGED <<sessv, layoutv, inputs, brandv, wrapv, fields, canvas, bio, errv, handv>>

\* The name alone: draw.text(((BLUR_AREA_WIDTH - text_width) // 2,
\*                           join_y + join_height + 20), CHANNEL_NAME, ...)
NameAlone(drawn, m) ==
  [text |-> drawn, measured |-> m.name, x |-> CenterX(m.w),
   y |-> join_y + JoinHeight + BrandGap]

\* ... the draw.text of the except clause.
FallbackDraw ==
  /\ InRender("fb_draw")
  /\ name_reads' = ReadName(name_reads, CHANNEL_NAME)
  /\ canvas' = [canvas EXCEPT
                  !.names = Append(@, NameAlone(CHANNEL_NAME, measured))]
  /\ rpc' = "encode"
  /\ UNCHANGED <<sessv, layoutv, inputs, brandv, wrapv, fields, measured, log, bio, errv,
                 handv>>

\* else: text_width, text_height = get_text_dimensions(CHANNEL_NAME, ...)
NameMeasure ==
  /\ InRender("name_measure")
  /\ name_reads' = ReadName(name_reads, CHANNEL_NAME)
  /\ measured' = [name |-> CHANNEL_NAME, w |-> NameWidth(CHANNEL_NAME)]
  /\ rpc' = "name_draw"
  /\ UNCHANGED <<sessv, layoutv, inputs, brandv, wrapv, fields, canvas, log, bio, errv,
                 handv>>

\* ... the draw.text of the else branch.
NameDraw ==
  /\ InRender("name_draw")
  /\ name_reads' = ReadName(name_reads, CHANNEL_NAME)
  /\ canvas' = [canvas EXCEPT
                  !.names = Append(@, NameAlone(CHANNEL_NAME, measured))]
  /\ rpc' = "encode"
  /\ UNCHANGED <<sessv, layoutv, inputs, brandv, wrapv, fields, measured, log, bio, errv,
                 handv>>

\* poster.save(bio, format="JPEG", quality=95); return bio
Encode ==
  /\ InRender("encode")
  /\ bio' = "jpeg"
  /\ rpc' = "returned"
  /\ UNCHANGED <<sessv, layoutv, inputs, brandv, wrapv, fields, measured, canvas,
                 name_reads, log, errv, handv>>


\* ------------------------------------------------ create_poster_handler
\* Handlers are coroutines on one event loop: a handler starts, or resumes
\* after an await, only when no other handler is running; create_custom_poster
\* is a plain function called without await, so nothing runs during it.
\* Variant: handlers on threads, started whatever else is running.
CanStartAnyTime == TRUE
\* A handler starts or resumes only when the event loop is free.
CanStart == running = "none"

\* The records get_anime_details hands to the handler in the bot runs.
FullRecord ==
  [title |-> [english |-> Str(<<"Attack", "on", "Titan">>),
              romaji |-> Str(<<"Shingeki", "no", "Kyojin">>)],
   season |-> "SPRING", seasonYear |-> "2013", episodes |-> "25",
   format |-> "TV", averageScore |-> "87",
   genres |-> List(<<"Action", "Psychological">>)]
NoRecord == [title |-> [english |-> NoKey, romaji |-> NoKey],
             season |-> ABSENT, seasonYear |-> ABSENT, episodes |-> ABSENT,
             format |-> ABSENT, averageScore |-> ABSENT, genres |-> NoKey]

\* callback.answer("Creating your custom poster...")
PosterStart ==
  /\ hpc = "idle" /\ CanStart
  /\ hpc' = "answered"
  /\ UNCHANGED <<sessv, layoutv, inputs, brandv, rpc, wrapv, fields, measured, canvas,
                 name_reads, log, bio, errv, replies, running>>

\* anime_data = await get_anime_details(anime_id)
GetDetails ==
  /\ hpc = "answered" /\ CanStart
  /\ \/ /\ anime_data' = FullRecord
        /\ hpc' = "details"
        /\ UNCHANGED replies
     \/ /\ replies' = Append(replies, "no_details")
        /\ hpc' = "done"
        /\ UNCHANGED anime_data
  /\ UNCHANGED <<sessv, layoutv, thumbnail_img, banner, brandv, rpc, wrapv,
                 fields, measured,
                 canvas, name_reads, log, bio, errv, running>>

\* thumbnail = user_thumbnails.find_one(...); download_telegram_image
LoadThumbnail ==
  /\ hpc = "details" /\ CanStart
  /\ \/ thumbnail_img' = FALSE /\ UNCHANGED log
     \/ thumbnail_img' = TRUE /\ UNCHANGED log
     \/ /\ thumbnail_img' = FALSE
        /\ log' = Append(log, "Error downloading thumbnail")
  /\ hpc' = "try"
  /\ UNCHANGED <<sessv, layoutv, anime_data, banner, brandv, rpc, wrapv,
                 fields, measured, canvas,
                 name_reads, bio, errv, replies, running>>

\* Variant: the name the branding document is created with.
default_branding(stored, current) == "A-Hub"
\* update_branding: CHANNEL_NAME = branding["channel_name"]
update_branding(stored, current) == stored

\* await update_branding(); create_custom_poster(anime_data, thumbnail_img):
\* update_branding has no await inside, so the call follows it at once.
EnterRender ==
  /\ hpc = "try" /\ CanStart
  /\ refreshed' = store
  /\ CHANNEL_NAME' = update_branding(store, CHANNEL_NAME)
  /\ running' = "poster"
  /\ hpc' = "render"
  /\ rpc' = "fetch"
  /\ UNCHANGED <<sessv, layoutv, inputs, store, cmds, wrapv, fields, measured, canvas,
                 name_reads, log, bio, errv, replies>>

\* title = ...; await callback.message.reply_photo(photo=poster_bio, ...):
\* the handler is suspended while the photo is sent.
StartReply ==
  /\ InRender("returned")
  /\ hpc' = "replying"
  /\ running' = "none"
  /\ UNCHANGED <<sessv, layoutv, inputs, brandv, rpc, wrapv, fields, measured, canvas,
                 name_reads, log, bio, errv, replies>>

\* reply_photo returns and poster_bio.close() runs, or reply_photo raises
\* and the except clause sends the failure reply.
FinishReply ==
  /\ hpc = "replying" /\ CanStart
  /\ \/ /\ replies' = Append(replies, "photo")
        /\ UNCHANGED log
     \/ /\ log' = Append(log, "Error creating poster")
        /\ replies' = Append(replies, "failure")
  /\ hpc' = "done"
  /\ UNCHANGED <<sessv, layoutv, inputs, brandv, rpc, wrapv, fields, measured, canvas,
                 name_reads, bio, errv, running>>

\* except Exception as e: ... reply("Failed to create poster. ...")
HandlerExcept ==
  /\ InRender("raised")
  /\ log' = Append(log, "Error creating poster")
  /\ replies' = Append(replies, "failure")
  /\ hpc' = "done"
  /\ running' = "none"
  /\ UNCHANGED <<sessv, layoutv, inputs, brandv, rpc, wrapv, fields, measured, canvas,
                 name_reads, bio, errv>>

\* --------------------------------------------------- set_channel_name
\* /cname with no argument replies with the usage; with a name it writes
\* the store and the global, with no await in between, then replies.
SetChannelName ==
  /\ cmds < MaxCmds /\ CanStart
  /\ cmds' = cmds + 1
  /\ \/ /\ replies' = Append(replies, "cname_usage")
        /\ UNCHANGED <<CHANNEL_NAME, store>>
     \/ \E new_name \in Names :
          /\ store' = new_name
          /\ CHANNEL_NAME' = new_name
          /\ replies' = Append(replies, "cname_updated")
  /\ UNCHANGED <<sessv, layoutv, inputs, refreshed, rpc, wrapv, fields,
                 measured, canvas, name_reads, log, bio, errv, hpc, running>>

\* ------------------------------------------------------ search sessions
\* No session document; no session callback in flight.
NoSession == [exists |-> FALSE]
NoTasks == <<>>

\* "perPage": 10
PerPage == 10
\* search_anilist(query, page): the Page object of the answer; its media
\* list is given by the page it is of and its length.
search_anilist(page) ==
  [media |-> [page |-> page,
              len |-> IF page < LastPage THEN PerPage
                      ELSE IF page = LastPage THEN LastPageLen ELSE 0],
   pageInfo |-> [currentPage |-> page, hasNextPage |-> page < LastPage]]

\* The document once search_command and its perform_search have shown the
\* first page.
FirstPageShown ==
  [exists |-> TRUE, page |-> 1,
   results |-> search_anilist(1).media,
   page_info |-> search_anilist(1).pageInfo,
   current_index |-> 0, message_id |-> TRUE]

\* A callback in flight: the handler, the await it is suspended at, the
\* page its perform_search asked for, and the button of a result callback.
Task(kind, pc, page) ==
  [kind |-> kind, pc |-> pc, page |-> page, action |-> "none"]
At(t, kind, pc) ==
  t \in 1..Len(tasks) /\ tasks[t].kind = kind /\ tasks[t].pc = pc
Move(t, pc) == tasks' = [tasks EXCEPT ![t].pc = pc]

\* Variant: the page is clamped to the first page only, in both directions.
NewPageFree(action, page) == IF action = "prev" THEN page - 1 ELSE page + 1
\* if action == "prev" and session["page"] > 1: new_page -= 1
\* elif action == "next": new_page += 1
NewPage(action, page) ==
  IF action = "prev" /\ page > 1 THEN page - 1
  ELSE IF action = "next" THEN page + 1
  ELSE page

\* page_nav_handler up to await callback.answer(...): the document is read
\* and its page written with no await in between.
page_nav_handler ==
  /\ CanStart /\ Len(tasks) < MaxCallbacks
  /\ \E action \in {"prev", "next"} :
       IF ~session.exists
       THEN /\ tasks' = Append(tasks, Task("page", "done", 0))
            /\ UNCHANGED session
       ELSE /\ session' = [session EXCEPT !.page = NewPage(action, @)]
            /\ tasks' = Append(tasks, Task("page", "answer", 0))
  /\ UNCHANGED postv

\* perform_search up to await search_anilist(...): the page asked for is
\* the page of the document when the callback was answered.
perform_search ==
  /\ CanStart
  /\ \E t \in 1..Len(tasks) :
       /\ At(t, "page", "answer")
       /\ IF ~session.exists
          THEN Move(t, "done")
          ELSE tasks' = [tasks EXCEPT ![t] =
                           Task("page", "searching", session.page)]
  /\ UNCHANGED <<session, postv>>

\* show_result up to its await: returns when there is no document or no
\* result, indexes the results, then edits or sends the message.
ShowPc(sess) ==
  IF ~sess.exists THEN "done"
  ELSE IF sess.results.len = 0 THEN "done"
  ELSE IF sess.current_index \notin 0..(sess.results.len - 1)
  THEN "crashed"
  ELSE IF sess.message_id THEN "editing" ELSE "sending"

\* Variant: the answer is dropped when the document has moved to another
\* page since the search began.
StoreIfCurrent(sess, results) ==
  IF ~sess.exists \/ sess.page # results.pageInfo.currentPage THEN sess
  ELSE [sess EXCEPT !.results = results.media,
                    !.page_info = results.pageInfo,
                    !.current_index = 0]
\* user_sessions.update_one(..., {"$set": {"results", "page_info",
\* "current_index": 0}}): no document, no change.
StoreResults(sess, results) ==
  IF ~sess.exists THEN sess
  ELSE [sess EXCEPT !.results = results.media,
                    !.page_info = results.pageInfo,
                    !.current_index = 0]

\* search_anilist answers: no media, and perform_search sends "No results
\* found!"; or the results are stored and show_result runs up to its await.
SearchReturns ==
  /\ CanStart
  /\ \E t \in 1..Len(tasks) :
       /\ At(t, "page", "searching")
       /\ LET results == search_anilist(tasks[t].page)
          IN IF results.media.len = 0
             THEN Move(t, "no_results") /\ UNCHANGED session
             ELSE /\ session' = StoreResults(session, results)
                  /\ Move(t, ShowPc(session'))
  /\ UNCHANGED postv

\* send_message returned: user_sessions.delete_one(...)
NoResultsSent ==
  /\ CanStart
  /\ \E t \in 1..Len(tasks) :
       /\ At(t, "page", "no_results")
       /\ session' = NoSession
       /\ Move(t, "done")
  /\ UNCHANGED postv

\* Variant: the index moved without the tests of the ends.
NewIndexFree(action, index, len) ==
  IF action = "prev" THEN index - 1 ELSE index + 1
\* if action == "prev" and current_index > 0: new_index -= 1
\* elif action == "next" and current_index < len(results) - 1: ... += 1
NewIndex(action, index, len) ==
  IF action = "prev" /\ index > 0 THEN index - 1
  ELSE IF action = "next" /\ index < len - 1 THEN index + 1
  ELSE index

\* result_nav_handler up to await callback.answer().
result_nav_handler ==
  /\ CanStart /\ Len(tasks) < MaxCallbacks
  /\ \E action \in {"prev", "next"} :
       IF ~session.exists
       THEN /\ tasks' = Append(tasks, Task("result", "done", 0))
            /\ UNCHANGED session
       ELSE /\ session' = [session EXCEPT !.current_index =
                             NewIndex(action, @, session.results.len)]
            /\ tasks' = Append(tasks, [Task("result", "answer", 0)
                                         EXCEPT !.action = action])
  /\ UNCHANGED postv

\* result_nav_handler's show_result, up to its await.
ResultShow ==
  /\ CanStart
  /\ \E t \in 1..Len(tasks) :
       /\ At(t, "result", "answer")
       /\ Move(t, ShowPc(session))
  /\ UNCHANGED <<session, postv>>

\* edit_message_media returned; or send_photo returned and message_id is
\* written to the document, if there is one.
ShowSent ==
  /\ CanStart
  /\ \E t \in 1..Len(tasks) :
       /\ tasks[t].pc \in {"editing", "sending"}
       /\ session' = IF tasks[t].pc = "sending" /\ session.exists
                     THEN [session EXCEPT !.message_id = TRUE]
                     ELSE session
       /\ Move(t, "done")
  /\ UNCHANGED postv

\* close_handler up to await delete_messages(...), or, with no message to
\* delete, up to await callback.answer("Search closed").
close_handler ==
  /\ CanStart /\ Len(tasks) < MaxCallbacks
  /\ IF session.exists /\ session.message_id
     THEN /\ tasks' = Append(tasks, Task("close", "deleting", 0))
          /\ UNCHANGED session
     ELSE /\ session' = NoSession
          /\ tasks' = Append(tasks, Task("close", "done", 0))
  /\ UNCHANGED postv

\* delete_messages returned or raised: user_sessions.delete_one(...)
CloseDeleted ==
  /\ CanStart
  /\ \E t \in 1..Len(tasks) :
       /\ At(t, "close", "deleting")
       /\ session' = NoSession
       /\ Move(t, "done")
  /\ UNCHANGED postv

\* ------------------------------------------------------- specifications
\* A banner of 1900 x 401 pixels.
WideBanner == [w |-> 1900, h |-> 401]

\* All titles of at most MaxWords words over these words.
WrapWords == {"on", "Titan", "Shingeki", "Pneumonoultramicroscopic"}
Titles == UNION {[1..n -> WrapWords] : n \in 0..MaxWords}

\* A render call in progress: create_custom_poster has just been called.
RenderCalled ==
  /\ hpc = "render" /\ rpc = "fetch" /\ running = "poster"
  /\ replies = <<>> /\ cmds = 0
  /\ refreshed = store
  /\ session = NoSession /\ tasks = NoTasks
  /\ FreshLocals

\* The wrap loop on every title.
InitWrap ==
  /\ \E ws \in Titles :
       anime_data = [FullRecord EXCEPT !.title.english = Str(ws)]
  /\ thumbnail_img \in BOOLEAN
  /\ banner = WideBanner
  /\ store = "A-Hub" /\ CHANNEL_NAME = store
  /\ RenderCalled

\* All genre lists of at most MaxGenres genres over these genres.
GenreNames == {"Action", "Psychological", "Slice of Life", "......"}
GenreLists == UNION {[1..n -> GenreNames] : n \in 0..MaxGenres}

\* The chip loop on every genre list.
InitChips ==
  /\ \E g \in {NoKey, Null} \cup {List(gs) : gs \in GenreLists} :
       anime_data = [FullRecord EXCEPT !.genres = g]
  /\ thumbnail_img \in BOOLEAN
  /\ banner = WideBanner
  /\ store = "A-Hub" /\ CHANNEL_NAME = store
  /\ RenderCalled

\* The backdrop scaling on every backdrop of at most MaxSide x MaxSide pixels
\* and on a banner of the usual proportions.
InitBackdrop ==
  /\ anime_data = FullRecord
  /\ thumbnail_img \in BOOLEAN
  /\ banner \in [w : 1..MaxSide, h : 1..MaxSide] \cup {WideBanner}
  /\ store = "A-Hub" /\ CHANNEL_NAME = store
  /\ RenderCalled

\* One render call on every shape of record.
InitRender ==
  /\ anime_data \in
       [title : [english : {NoKey, Null, Str(<<>>),
                            Str(<<"Attack", "on", "Titan">>)},
                 romaji : {NoKey, Null, Str(<<"Attack", "on", "Titan">>),
                           Str(<<"Shingeki", "no", "Kyojin">>)}],
        season : {ABSENT, NULL, "WINTER"},
        seasonYear : {ABSENT, NULL, "2013"},
        episodes : {ABSENT, NULL, "25"},
        format : {ABSENT, NULL, "TV", "TV_SHORT"},
        averageScore : {ABSENT, NULL, "0", "87", "100"},
        genres : {List(<<"Action", "Psychological">>)}]
  /\ thumbnail_img \in BOOLEAN
  /\ store \in {"A-Hub",
                "The Longest Anime Channel Name Of Them All On Telegram"}
  /\ CHANNEL_NAME = store
  /\ banner = WideBanner
  /\ RenderCalled

\* The bot after start-up: the branding document holds "A-Hub".
InitBot ==
  /\ anime_data = NoRecord /\ thumbnail_img = FALSE
  /\ store = "A-Hub" /\ CHANNEL_NAME = store
  /\ hpc = "idle" /\ rpc = "idle" /\ running = "none"
  /\ replies = <<>> /\ cmds = 0
  /\ banner = WideBanner /\ refreshed = store
  /\ session = NoSession /\ tasks = NoTasks
  /\ FreshLocals

\* The bot with the first page of a search shown and no callback yet.
InitSession ==
  /\ anime_data = NoRecord /\ thumbnail_img = FALSE
  /\ store = "A-Hub" /\ CHANNEL_NAME = store
  /\ hpc = "idle" /\ rpc = "idle" /\ running = "none"
  /\ replies = <<>> /\ cmds = 0
  /\ banner = WideBanner /\ refreshed = store
  /\ session = FirstPageShown /\ tasks = NoTasks
  /\ FreshLocals

NextSession ==
  \/ page_nav_handler \/ perform_search \/ SearchReturns \/ NoResultsSent
  \/ result_nav_handler \/ ResultShow \/ ShowSent
  \/ close_handler \/ CloseDeleted

NextRender ==
  \/ Fetch \/ Background \/ Extract \/ WrapWord \/ WrapExit \/ WrapEnd
  \/ DrawTitle \/ Details \/ Rating \/ Genres \/ GenreChip \/ GenresDone
  \/ Caption \/ Branding
  \/ ThumbResize \/ ThumbMask \/ ThumbMeasure \/ ThumbPaste \/ ThumbDraw
  \/ ThumbFault \/ FallbackMeasure \/ FallbackDraw
  \/ NameMeasure \/ NameDraw \/ Encode
  \/ OuterFault \/ OuterExcept
  \/ StartReply \/ FinishReply \/ HandlerExcept

NextBot ==
  \/ NextRender
  \/ PosterStart \/ GetDetails \/ LoadThumbnail \/ EnterRender
  \/ SetChannelName

SpecWrap == InitWrap /\ [][NextRender]_vars
SpecRender == InitRender /\ [][NextRender]_vars
SpecChips == InitChips /\ [][NextRender]_vars
SpecBackdrop == InitBackdrop /\ [][NextRender]_vars
SpecBot == InitBot /\ [][NextBot]_vars
SpecSession == InitSession /\ [][NextSession]_vars
Spec == SpecBot


\* ================================================================ claims
\* The words of the drawn title lines, read line by line.
RECURSIVE JoinLines(_)
JoinLines(lines) ==
  IF lines = <<>> THEN <<>> ELSE Head(lines) \o JoinLines(Tail(lines))

\* The title block is on the canvas.
TitleDrawn == canvas.title_lines # <<>>

\* C1: no title line drawn by the wrap loop is wider than
\* panelWidth - 100 = 668 px, whatever the words of the title.
C1_LineWidthBound ==
  \A l \in 1..Len(canvas.title_lines) :
    TextWidth(canvas.title_lines[l]) <= 768 - 100

\* C2: the wrap loop commits and draws at most 3 title lines, whatever the
\* number of words of the title and their widths.
C2_AtMostThreeLines ==
  /\ Len(title_lines) <= 3
  /\ Len(canvas.title_lines) <= 3

\* C2 witness: a title of more words than fit on three lines has been drawn
\* on three lines and its last words dropped.
C2_Witness ==
  /\ TitleDrawn
  /\ Len(canvas.title_lines) = 3
  /\ Len(JoinLines(canvas.title_lines)) < Len(title)


\* The record has a non-empty English and a non-empty romanized title, and
\* they differ.
BothTitles ==
  /\ Truthy(anime_data.title.english)
  /\ Truthy(anime_data.title.romaji)
  /\ anime_data.title.english # anime_data.title.romaji

\* C3 (as stated): when the record has both titles and they differ, the
\* title drawn on the poster is "English / Romanized".
C3_ConcatenatedTitle ==
  (TitleDrawn /\ BothTitles) =>
    JoinLines(canvas.title_lines) =
      anime_data.title.english.v \o <<"/">> \o anime_data.title.romaji.v

\* C3 (amended): when the record has both titles and they differ, the title
\* drawn on the poster is the English title alone.
C3_EnglishTitleAlone ==
  (TitleDrawn /\ BothTitles) =>
    JoinLines(canvas.title_lines) = anime_data.title.english.v

\* C3 witness: a poster of a record with both titles has its title drawn.
C3_Witness ==
  /\ TitleDrawn /\ BothTitles
  /\ rpc = "returned"

\* The score of the record is unknown: the field is missing or null.
ScoreUnknown == anime_data.averageScore \in {ABSENT, NULL}

\* C4: the rating text is "{score}%" for a score in 0..100 and the literal
\* "N/A" in place of the percentage when the score is unknown; the render
\* does not fail because the score is missing.
C4_RatingText ==
  /\ canvas.rating # <<>> =>
       canvas.rating = IF ScoreUnknown THEN <<"N/A">>
                       ELSE <<anime_data.averageScore, "%">>
  /\ raised = "rating" => cause = "env"

\* The text the claim expects for a field: its value, or "N/A" if unknown.
OrNA(x, shown) == IF x \in {ABSENT, NULL} THEN "N/A" ELSE shown

\* C5: for every record, unknown period, episode count or format included,
\* exactly three metadata lines are drawn, in the order period, episodes,
\* format, an unknown field reading "N/A", and the render does not abort on
\* the record.
C5_ThreeMetadataLines ==
  /\ cause # "data"
  /\ canvas.details # <<>> =>
       canvas.details =
         << <<"Season: ", OrNA(anime_data.season, fields.season), " ",
              OrNA(anime_data.seasonYear, anime_data.seasonYear)>>,
            <<"Episodes: ", OrNA(anime_data.episodes, anime_data.episodes)>>,
            <<"Type: ", OrNA(anime_data.format, fields.media_type)>> >>

\* C6: under every interleaving of channel-name updates with a poster
\* handler, one poster uses one channel name: every read of CHANNEL_NAME in
\* a render returns the same value, each name drawn is the name measured
\* for it, and while the render runs that value is the current name.
C6_OneNamePerPoster ==
  /\ \A k \in 1..Len(name_reads) : name_reads[k] = name_reads[1]
  /\ \A k \in 1..Len(canvas.names) :
       /\ canvas.names[k].text = canvas.names[k].measured
       /\ canvas.names[k].text = name_reads[1]
       /\ canvas.names[k].text \in Names
  /\ (running = "poster" /\ name_reads # <<>>) =>
       name_reads[1] = CHANNEL_NAME

\* C6 witness: the name was changed before the render and again while the
\* photo was being sent; the poster carries the first of the two names.
C6_Witness ==
  /\ hpc = "replying"
  /\ canvas.names # <<>>
  /\ canvas.names[1].text # "A-Hub"
  /\ canvas.names[1].text # CHANNEL_NAME

\* The number of reads of CHANNEL_NAME made by the try block of the
\* thumbnail sub-step before the given step failed.
ReadsBeforeFault(step) ==
  CASE step \in {"thumb_resize", "thumb_mask"} -> 0
    [] step \in {"thumb_measure", "thumb_paste"} -> 1
    [] step = "thumb_draw" -> 2
    [] OTHER -> 0

\* C7 (as stated): CHANNEL_NAME is read exactly once per render call, on
\* every path.
C7_ReadOnce == rpc = "returned" => Len(name_reads) = 1

\* C7 (amended): CHANNEL_NAME is read once per use: twice when there is no
\* thumbnail and when the thumbnail sub-step succeeds, and the reads of the
\* try block up to the failure plus two when it fails (2 to 4); all the
\* reads of one render return the same value.
C7_ReadPerUse ==
  rpc = "returned" =>
    /\ Len(name_reads) = 2 + ReadsBeforeFault(thumb_fault)
    /\ \A k \in 1..Len(name_reads) : name_reads[k] = name_reads[1]

\* C7 witness: a render whose thumbnail sub-step failed in its last step
\* has returned, after four reads.
C7_Witness ==
  /\ rpc = "returned" /\ thumb_fault = "thumb_draw"
  /\ Len(name_reads) = 4
  /\ cmds > 0

\* C8: a failure in a stage outside the thumbnail sub-step aborts the
\* render: no buffer is returned, the error reaches the handler, and the
\* handler sends the failure reply and never the photo.
C8_FailureAborts ==
  raised # "none" =>
    /\ rpc \in {"except", "raised"}
    /\ bio = "none"
    /\ \A k \in 1..Len(replies) : replies[k] # "photo"
    /\ hpc = "done" => replies = <<"failure">>

\* C8 witness: the rating stage failed and the handler has answered.
C8_Witness ==
  /\ raised = "rating" /\ hpc = "done"
  /\ replies = <<"failure">>

\* C9: when a step of the thumbnail sub-step fails the render still returns
\* an image, whose branding block is that of the no-thumbnail path: the
\* name alone, centered, no thumbnail; the failure is logged.
C9_FallbackIsNoThumbnail ==
  /\ thumb_fault # "none" => raised \in {"none", "encode"}
  /\ (thumb_fault # "none" /\ rpc = "returned") =>
       /\ bio = "jpeg"
       /\ canvas.thumb = <<>>
       /\ canvas.names =
            <<[text |-> CHANNEL_NAME, measured |-> CHANNEL_NAME,
               x |-> (768 - NameWidth(CHANNEL_NAME)) \div 2,
               y |-> join_y + JoinHeight + 20]>>
       /\ \E k \in 1..Len(log) : log[k] = "Error processing thumbnail"

\* The branding step of a render without thumbnail is over.
NameAloneDrawn ==
  /\ ~thumbnail_img
  /\ rpc \in {"encode", "returned"} \/ raised = "encode"

\* C10: a render without thumbnail raises nothing in the branding step and
\* draws only the channel name, at x = (768 - nameWidth) // 2, below the
\* join caption.
C10_NoThumbnail ==
  ~thumbnail_img =>
    /\ thumb_fault = "none"
    /\ canvas.thumb = <<>>
    /\ raised \notin {"branding", "name_measure", "name_draw"}
    /\ \A k \in 1..Len(log) : log[k] # "Error processing thumbnail"
    /\ NameAloneDrawn =>
         /\ Len(canvas.names) = 1
         /\ canvas.names[1].text = CHANNEL_NAME
         /\ canvas.names[1].x = (768 - NameWidth(CHANNEL_NAME)) \div 2
         /\ canvas.names[1].y >= canvas.join[1].y + JoinHeight

\* C10 witness: a poster without thumbnail is returned, its name wider than
\* the panel and still centered on the panel's middle.
C10_Witness ==
  /\ NameAloneDrawn /\ rpc = "returned"
  /\ canvas.names[1].x < 0


\* The genres of the record and the chips drawn so far.
GenreList == ListOf(anime_data.genres)
Chips == canvas.chips

RECURSIVE SumChipWidths(_)
SumChipWidths(cs) ==
  IF cs = <<>> THEN 0 ELSE Head(cs).w + SumChipWidths(Tail(cs))

\* Four chips are drawn, and side by side from the left margin, 10 px
\* apart, they would end right of the usable width 768 - 50.
FourChipsTooWide ==
  /\ anime_data.genres.k = "list"
  /\ Len(Chips) = 4
  /\ 50 + SumChipWidths(Chips) + 3 * 10 > 768 - 50

\* C11: of 4 genres whose padded chips do not fit in one row of the usable
\* width, at least one chip is drawn lower than the first chip.
C11_FourChipsWrap ==
  FourChipsTooWide => \E k \in 2..4 : Chips[k].y > Chips[1].y

\* C11 witness: four chips too wide for one row are drawn, the first in the
\* first row and the fourth below it.
C11_Witness ==
  /\ FourChipsTooWide
  /\ Chips[1].y = GenresTop(title_lines)
  /\ Chips[3].y = Chips[1].y
  /\ Chips[4].y > Chips[1].y

\* C12: the chips drawn are the first min(n, 4) genres in input order, and
\* a later chip is in the same row further right or in a lower row.
C12_FirstFourInOrder ==
  anime_data.genres.k = "list" =>
    /\ Len(Chips) <= 4 /\ Len(Chips) <= Len(GenreList)
    /\ \A k \in 1..Len(Chips) : Chips[k].genre = GenreList[k]
    /\ rpc = "returned" =>
         Len(Chips) = IF Len(GenreList) < 4 THEN Len(GenreList) ELSE 4
    /\ \A j, k \in 1..Len(Chips) :
         j < k => \/ Chips[j].y = Chips[k].y /\ Chips[j].x < Chips[k].x
                  \/ Chips[j].y < Chips[k].y

\* C12 witness: a poster of a record with five genres is returned with four
\* chips in two rows.
C12_Witness ==
  /\ rpc = "returned" /\ anime_data.genres.k = "list"
  /\ Len(GenreList) = 5 /\ Len(Chips) = 4
  /\ Chips[2].y = Chips[1].y
  /\ Chips[4].y > Chips[1].y

\* The chips drawn before chip k in the row chip k - 1 is in.
RowLeftBy(k) == {j \in 1..(k - 1) : Chips[j].y = Chips[k - 1].y}
\* The height of the tallest chip among the given ones.
RowHeight(row) == CHOOSE h \in {Chips[j].h : j \in row} :
                    \A j \in row : Chips[j].h <= h

\* C16: a chip that does not fit in its row is drawn at the left margin 50,
\* lower than the row it leaves by that row's pill height plus 10 px.
C16_WrapAdvancesByRowHeight ==
  \A k \in 2..Len(Chips) :
    Chips[k].y > Chips[k - 1].y =>
      /\ Chips[k].x = 50
      /\ Chips[k].y = Chips[k - 1].y + RowHeight(RowLeftBy(k)) + 10

\* C19: no two chips overlap: chips of one row are 10 px apart, and a chip
\* of a later row starts at or below the bottom edge of every chip of the
\* rows above it.
C19_NoChipOverlap ==
  \A j, k \in 1..Len(Chips) :
    j < k =>
      /\ Chips[j].y = Chips[k].y =>
           Chips[k].x >= Chips[j].x + Chips[j].w + 10
      /\ Chips[j].y < Chips[k].y =>
           Chips[k].y >= Chips[j].y + Chips[j].h


\* The backdrop has been scaled and its crop box computed.
BackdropScaled == target # NoTarget

\* C13: the scaled backdrop is at least 768 wide and 720 high, with the
\* height 720 or the width 768, and the center-crop box lies inside it and
\* is exactly 768 wide and 720 high.
C13_ScaleCoversPanel ==
  BackdropScaled =>
    /\ target.w >= 768 /\ target.h >= 720
    /\ target.h = 720 \/ target.w = 768
    /\ 0 <= target.left /\ target.right <= target.w
    /\ 0 <= target.top /\ target.bottom <= target.h
    /\ target.right - target.left = 768
    /\ target.bottom - target.top = 720

\* C13 witness: a backdrop taller than wide is scaled to the width 768 and
\* cropped from within its height.
C13_Witness ==
  /\ BackdropScaled /\ banner.h > banner.w
  /\ target.w = 768 /\ target.h > 720 /\ target.top > 0


\* C14: when the record has no usable English title, the title drawn is the
\* romanized title if that is non-empty, and "No Title" when neither title
\* is present.
C14_RomajiThenPlaceholder ==
  (TitleDrawn /\ ~Truthy(Get(anime_data.title.english))) =>
    JoinLines(canvas.title_lines) =
      IF Truthy(Get(anime_data.title.romaji))
      THEN anime_data.title.romaji.v
      ELSE <<"No", "Title">>

\* C14 witness: a poster of a record with neither title is returned with
\* "No Title" drawn.
C14_Witness ==
  /\ rpc = "returned"
  /\ ~Truthy(Get(anime_data.title.english))
  /\ ~Truthy(Get(anime_data.title.romaji))
  /\ JoinLines(canvas.title_lines) = <<"No", "Title">>

\* The canvas exists: Image.new has run.
CanvasCreated == canvas.size # <<>>

\* C15: from its creation to the encoding the canvas is 1280x720, whatever
\* the record; its left panel is 768 wide and its right panel 512 wide,
\* side by side over the whole width and height; a returned poster has it.
C15_FixedGeometry ==
  /\ rpc = "returned" => CanvasCreated
  /\ CanvasCreated =>
       /\ canvas.size = <<1280, 720>>
       /\ canvas.blur = <<[x |-> 0, y |-> 0, w |-> 768, h |-> 720]>>
       /\ canvas.cover = <<[x |-> 768, y |-> 0, w |-> 512, h |-> 720]>>
       /\ canvas.blur[1].w + canvas.cover[1].w = canvas.size[1]

\* C15 witness: a poster is returned for a record with no titles and no
\* metadata.
C15_Witness ==
  /\ rpc = "returned" /\ bio = "jpeg" /\ CanvasCreated
  /\ anime_data.title.english = NoKey /\ anime_data.season = ABSENT
  /\ anime_data.averageScore = ABSENT

\* p is a prefix of s.
IsPrefix(p, s) == Len(p) <= Len(s) /\ SubSeq(s, 1, Len(p)) = p

C18_RefreshedNameDrawn ==
  /\ \A k \in 1..Len(name_reads) : name_reads[k] = refreshed
  /\ \A k \in 1..Len(canvas.names) : canvas.names[k].text = refreshed
  /\ hpc = "render" =>
       /\ running = "poster"
       /\ CHANNEL_NAME = refreshed
       /\ store = refreshed

\* C18 witness: the name was set before the handler's refresh and set again
\* while the photo was being sent; the poster carries the refreshed name.
C18_Witness ==
  /\ hpc = "replying" /\ cmds = 2
  /\ canvas.names # <<>>
  /\ canvas.names[1].text = refreshed
  /\ refreshed # "A-Hub"
  /\ store # refreshed


\* Every callback delivered so far has run to its end.
AllFinished == \A t \in 1..Len(tasks) : tasks[t].pc \in {"done", "crashed"}

\* C20: once all the page callbacks of a session have finished, the
\* results and page_info the document holds are those fetched for the page
\* it holds: page = page_info.currentPage, and the results are of that page.
C20_ResultsMatchPage ==
  (AllFinished /\ session.exists) =>
    /\ session.page_info.currentPage = session.page
    /\ session.results.page = session.page


\* The document holds a result list.
HasResults == session.exists /\ session.results.len > 0

\* The step is result_nav_handler handling the given button on a document.
ResultPressed(action) ==
  /\ session.exists /\ Len(tasks') = Len(tasks) + 1
  /\ tasks'[Len(tasks')].kind = "result"
  /\ tasks'[Len(tasks')].action = action

\* C21 (index in range): whenever the document has results, its
\* current_index is between 0 and len(results) - 1, and show_result never
\* indexes outside the list.
IndexInRange ==
  /\ HasResults =>
       /\ 0 <= session.current_index
       /\ session.current_index <= session.results.len - 1
  /\ \A t \in 1..Len(tasks) : tasks[t].pc # "crashed"

\* C21 (buttons): prev moves the index down by one except at index 0, next
\* moves it up by one except at the last index, where they leave it as it is.
ButtonsClamp ==
  /\ ResultPressed("prev") =>
       session'.current_index =
         IF session.current_index = 0 THEN 0
         ELSE session.current_index - 1
  /\ ResultPressed("next") =>
       session'.current_index =
         IF session.current_index = session.results.len - 1
         THEN session.current_index
         ELSE session.current_index + 1

====
